---- MODULE Spec2Model ----
(***************************************************************************)
(* Model of the notebook                                                   *)
(*   2024-04-29-visualizing-logistic-regression-multiclass-text-data.ipynb *)
(*                                                                         *)
(* A text is a sequence of characters; every character is a one-element    *)
(* string.  While a text is being cleaned each character is carried in a   *)
(* cell [c |-> character, i |-> index of the character in the argument of  *)
(* clean_text]; a character that a substitution or ' '.join inserts has    *)
(* i = 0.  The index is bookkeeping only: no step of clean_text reads it.  *)
(***************************************************************************)
EXTENDS Integers, Sequences, FiniteSets, TLC

\* ------------------------------------------------------------------------
\* Bounds of the model
\* ------------------------------------------------------------------------
MaxTokens == 4
\* copies of one kind of entry in the train split
MaxRep == 5
\* copies of one kind of entry in the test split
MaxTestRep == 1
\* members of the family of coefficient matrices a fit can return
MaxSeed == 1
\* vocabulary sizes and seeds of the coefficient matrices summarised on
\* their own
MaxFeatures == 21
MaxMul == 4

\* ------------------------------------------------------------------------
\* Characters and the character classes of Python's re / str
\* ------------------------------------------------------------------------
LowerSeq ==
  <<"a","b","c","d","e","f","g","h","i","j","k","l","m",
    "n","o","p","q","r","s","t","u","v","w","x","y","z">>
UpperSeq ==
  <<"A","B","C","D","E","F","G","H","I","J","K","L","M",
    "N","O","P","Q","R","S","T","U","V","W","X","Y","Z">>
Lowers == {LowerSeq[k] : k \in 1..Len(LowerSeq)}
Uppers == {UpperSeq[k] : k \in 1..Len(UpperSeq)}
Digits == {"0","1","2","3","4","5","6","7","8","9"}
\* A letter without case (the CJK ideograph U+65E5): str is Unicode, so \w
\* matches it, \d and \s do not, and str.lower() leaves it alone.
CJK == "U+65E5"
Caseless == {CJK}
Whitespace == {" ", "\n", "\t"}

\* \s
IsSpace(c) == c \in Whitespace
\* \d
IsDigit(c) == c \in Digits
\* . (without re.DOTALL)
IsDot(c) == c # "\n"
IsAscii(c) == c \notin Caseless

\* str.lower() on one character
ToLower(c) ==
  IF c \in Uppers
    THEN LowerSeq[CHOOSE k \in 1..Len(UpperSeq) : UpperSeq[k] = c]
    ELSE c

Min(S) == CHOOSE m \in S : \A n \in S : m <= n

\* the characters of a sequence of cells
Str(t) == [k \in 1..Len(t) |-> t[k].c]
\* the cells of an argument text
Cells(s) == [k \in 1..Len(s) |-> [c |-> s[k], i |-> k]]
Inserted(ch) == [c |-> ch, i |-> 0]

\* t has the literal lit at index k
HasAt(t, k, lit) ==
  /\ k + Len(lit) - 1 <= Len(t)
  /\ \A j \in 1..Len(lit) : t[k + j - 1].c = lit[j]

\* the characters \w matches
WordChars == Lowers \cup Uppers \cup Digits \cup Caseless \cup {"_"}

\* number of consecutive cells from index k on whose character is in S (when
\* inside holds) or is not in S (otherwise)
RunLen(t, k, S, inside) ==
  LET stops == {j \in k..Len(t) : (t[j].c \in S) # inside}
  IN  IF stops = {} THEN Len(t) - k + 1 ELSE Min(stops) - k

\* length of the match of \S* at index k
NonSpaceRun(t, k) == RunLen(t, k, Whitespace, FALSE)

\* ------------------------------------------------------------------------
\* clean_text, one definition per statement
\* ------------------------------------------------------------------------

\* the match of  http\S+  alone
url_match_http_only(t, k) ==
  LET http == <<"h","t","t","p">>
  IN  IF HasAt(t, k, http) /\ NonSpaceRun(t, k + 4) >= 1
        THEN 4 + NonSpaceRun(t, k + 4)
        ELSE 0

\* length of the match of  http\S+|www\S+|https\S+  at index k, 0 if none
\* (the third alternative never decides: where it matches, the first does)
url_match(t, k) ==
  LET http == <<"h","t","t","p">>
      www  == <<"w","w","w">>
      https == <<"h","t","t","p","s">>
      alt(lit) == IF HasAt(t, k, lit) /\ NonSpaceRun(t, k + Len(lit)) >= 1
                    THEN Len(lit) + NonSpaceRun(t, k + Len(lit))
                    ELSE 0
  IN  IF alt(http) > 0 THEN alt(http)
      ELSE IF alt(www) > 0 THEN alt(www)
      ELSE alt(https)

RECURSIVE sub_urls_from(_, _)
sub_urls_from(t, k) ==
  IF k > Len(t) THEN <<>>
  ELSE IF url_match(t, k) > 0 THEN sub_urls_from(t, k + url_match(t, k))
  ELSE <<t[k]>> \o sub_urls_from(t, k + 1)

\* re.sub(r'http\S+|www\S+|https\S+', '', text, flags=re.MULTILINE)
sub_urls(t) == sub_urls_from(t, 1)

\* length of the match of  \@\w+|\#  at index k, 0 if none
mention_match(t, k) ==
  IF t[k].c = "@" /\ RunLen(t, k + 1, WordChars, TRUE) >= 1
    THEN 1 + RunLen(t, k + 1, WordChars, TRUE)
  ELSE IF t[k].c = "#" THEN 1
  ELSE 0

RECURSIVE sub_mentions_from(_, _)
sub_mentions_from(t, k) ==
  IF k > Len(t) THEN <<>>
  ELSE IF mention_match(t, k) > 0
    THEN sub_mentions_from(t, k + mention_match(t, k))
  ELSE <<t[k]>> \o sub_mentions_from(t, k + 1)

\* re.sub(r'\@\w+|\#', '', text)
sub_mentions(t) == sub_mentions_from(t, 1)

\* re.sub(r'\d+', '', text)
sub_digits(t) == SelectSeq(t, LAMBDA x : ~IsDigit(x.c))

\* re.sub(r'[^\w\s]', '', text)
sub_punct(t) == SelectSeq(t, LAMBDA x : x.c \in WordChars \/ IsSpace(x.c))

RECURSIVE sub_underscores_from(_, _)
sub_underscores_from(t, k) ==
  IF k > Len(t) THEN <<>>
  ELSE IF t[k].c = "_"
    THEN <<Inserted(" ")>> \o sub_underscores_from(t, k + RunLen(t, k, {"_"}, TRUE))
  ELSE <<t[k]>> \o sub_underscores_from(t, k + 1)

\* re.sub(r'_+', ' ', text)
sub_underscores(t) == sub_underscores_from(t, 1)

\* length of the match of  (.)\1+  at index k, 0 if none
repeat_match(t, k) ==
  LET run == RunLen(t, k, {t[k].c}, TRUE)
  IN  IF IsDot(t[k].c) /\ run >= 2 THEN run ELSE 0

RECURSIVE sub_repeats_from(_, _)
sub_repeats_from(t, k) ==
  IF k > Len(t) THEN <<>>
  ELSE IF repeat_match(t, k) > 0
    THEN <<t[k], t[k]>> \o sub_repeats_from(t, k + repeat_match(t, k))
  ELSE <<t[k]>> \o sub_repeats_from(t, k + 1)

\* re.sub(r'(.)\1+', r'\1\1', text)
sub_repeats(t) == sub_repeats_from(t, 1)

keep_all(t) == t

\* text.lower()
lower(t) == [k \in 1..Len(t) |-> [t[k] EXCEPT !.c = ToLower(@)]]

\* text.split(): the maximal runs of non-whitespace, in order
RECURSIVE split_from(_, _)
split_from(t, k) ==
  IF k > Len(t) THEN <<>>
  ELSE IF IsSpace(t[k].c) THEN split_from(t, k + 1)
  ELSE <<SubSeq(t, k, k + NonSpaceRun(t, k) - 1)>>
         \o split_from(t, k + NonSpaceRun(t, k))

split(t) == split_from(t, 1)

\* ' '.join(words)
RECURSIVE join(_)
join(words) ==
  IF words = <<>> THEN <<>>
  ELSE IF Len(words) = 1 THEN words[1]
  ELSE words[1] \o <<Inserted(" ")>> \o join(Tail(words))

\* stopwords.words('english'), the entries that the letters a h p s t w spell
stop_words ==
  { <<"a">>, <<"s">>, <<"t">>, <<"a","s">>, <<"a","t">>,
    <<"h","a","s">>, <<"w","a","s">>,
    <<"t","h","a","t">>, <<"w","h","a","t">> }

\* Noun lemmas of the WordNet corpus among the words the inputs can spell.
\* The corpus is data fetched by nltk.download: the model runs with the
\* corpus below and with an empty one.
WordNetNouns ==
  { <<"a">>, <<"s">>, <<"a","s">>, <<"a","s","s">>, <<"a","t">>, <<"a","a">>,
    <<"h","a","t">>, <<"s","p","a">>, <<"t","a","p">>, <<"p","a","t","h">>,
    <<"w","w","w">>, <<"h","t","t","p">> }
Corpora == { {}, WordNetNouns }

\* WordNetCorpusReader._morphy for pos = 'n', then the shortest form found.
\* Of MORPHOLOGICAL_SUBSTITUTIONS[NOUN] only ('s', '') applies to words over
\* the letters above: every other rule needs a suffix with e or n.
\* The value is the number of leading characters of the word that make up
\* the lemma.
RECURSIVE morphy_rest(_, _, _)
morphy_rest(w, n, corpus) ==
  \* forms = apply_rules(forms) until a form is in the corpus
  IF n = 0 \/ w[n] # "s" THEN Len(w)
  ELSE IF SubSeq(w, 1, n - 1) \in corpus THEN n - 1
  ELSE morphy_rest(w, n - 1, corpus)

lemma_len(w, corpus) ==
  LET n == Len(w)
      stripped == n >= 1 /\ w[n] = "s"
  IN  IF stripped /\ SubSeq(w, 1, n - 1) \in corpus THEN n - 1
      ELSE IF w \in corpus THEN n
      ELSE IF stripped THEN morphy_rest(w, n - 1, corpus)
      ELSE n

\* lemmatizer.lemmatize(word)
lemmatize(word, corpus) == SubSeq(word, 1, lemma_len(Str(word), corpus))

\* [lemmatizer.lemmatize(word) for word in text.split() if word not in stop_words]
lemmas(t, corpus) ==
  LET kept == SelectSeq(split(t), LAMBDA w : Str(w) \notin stop_words)
  IN  [k \in 1..Len(kept) |-> lemmatize(kept[k], corpus)]

\* def clean_text(text), on cells
clean_cells(t, corpus) ==
  join(lemmas(lower(sub_repeats(sub_underscores(sub_punct(sub_digits(
         sub_mentions(sub_urls(t))))))), corpus))

\* def clean_text(text)
clean_text(text, corpus) == Str(clean_cells(Cells(text), corpus))

\* ------------------------------------------------------------------------
\* Dataset entries
\* ------------------------------------------------------------------------
\* None as the value of a text and of a label
None == <<"None">>
NoLabel == "None"
\* the label values, in sorted order
Labels == <<"alt", "rec", "sci">>

Entry(id, txt, lab) == [id |-> id, text |-> txt, label |-> lab]

\* def clean_and_update(entry) with clean_text(entry['text'] or '')
clean_and_update_or_empty(entry, corpus) ==
  [entry EXCEPT !.text = IF @ = None THEN clean_text(<<>>, corpus)
                                     ELSE clean_text(@, corpus)]

\* def clean_and_update(entry)
clean_and_update(entry, corpus) ==
  IF entry.text # None
    THEN [entry EXCEPT !.text = clean_text(@, corpus)]
    ELSE entry

\* is_valid testing the truth value of the text
is_valid_truthy(entry) == entry.label # NoLabel /\ entry.text # None /\ entry.text # <<>>

\* def is_valid(entry)
is_valid(entry) == entry.label # NoLabel /\ entry.text # None

\* Dataset.map(clean_and_update)
map_clean_and_update(ds, corpus) ==
  [k \in 1..Len(ds) |-> clean_and_update(ds[k], corpus)]
\* Dataset.filter(is_valid)
filter_is_valid(ds) == SelectSeq(ds, is_valid)
\* ds[name]
column(ds, name) == [k \in 1..Len(ds) |-> ds[k][name]]

\* ------------------------------------------------------------------------
\* TfidfVectorizer(min_df=5, max_df=0.40)
\* ------------------------------------------------------------------------
min_df == 5
\* max_df = 0.40, in hundredths
max_df == 40

\* token_pattern (?u)\b\w\w+\b on a cleaned text: the words of two or more
\* characters
tokens(doc) ==
  LET ws == split(Cells(doc))
  IN  {Str(ws[k]) : k \in {m \in 1..Len(ws) : Len(ws[m]) >= 2}}

token_count(doc, term) ==
  LET ws == split(Cells(doc))
  IN  Cardinality({k \in 1..Len(ws) : Str(ws[k]) = term})

\* document frequency of a term
df(docs, term) == Cardinality({k \in 1..Len(docs) : term \in tokens(docs[k])})

all_terms(docs) == UNION {tokens(docs[k]) : k \in 1..Len(docs)}

\* _limit_features: the terms with min_df <= df <= max_df * n_doc
limit_features(docs) ==
  {t \in all_terms(docs) :
     df(docs, t) >= min_df /\ df(docs, t) * 100 <= max_df * Len(docs)}

\* fit_transform raises ValueError: empty vocabulary, max_df corresponding to
\* fewer documents than min_df, or no terms left after pruning
fit_raises(docs) ==
  \/ all_terms(docs) = {}
  \/ max_df * Len(docs) < min_df * 100
  \/ limit_features(docs) = {}

\* code point order of the characters of a term
CharRank(c) ==
  IF c \in Lowers THEN CHOOSE k \in 1..Len(LowerSeq) : LowerSeq[k] = c ELSE 27

RECURSIVE TermLess(_, _)
TermLess(a, b) ==
  IF a = <<>> THEN b # <<>>
  ELSE IF b = <<>> THEN FALSE
  ELSE IF a[1] # b[1] THEN CharRank(a[1]) < CharRank(b[1])
  ELSE TermLess(Tail(a), Tail(b))

RECURSIVE sorted(_)
sorted(S) ==
  IF S = {} THEN <<>>
  ELSE LET m == CHOOSE x \in S : \A y \in S \ {x} : TermLess(x, y)
       IN  <<m>> \o sorted(S \ {m})

\* vocabulary_ after fit: the kept terms in sorted order
fit_vocabulary(docs) == sorted(limit_features(docs))

\* transform as a second fit_transform on the documents given
transform_refit(vocabulary, docs) ==
  [k \in 1..Len(docs) |->
     [f \in 1..Len(fit_vocabulary(docs)) |->
        token_count(docs[k], fit_vocabulary(docs)[f])]]

\* transform: one row per document, one column per vocabulary term.  A cell
\* holds the count of the term in the document; the idf weight and the row
\* normalisation rescale the nonzero cells and leave the shape alone.
transform(vocabulary, docs) ==
  [k \in 1..Len(docs) |->
     [f \in 1..Len(vocabulary) |-> token_count(docs[k], vocabulary[f])]]

\* ------------------------------------------------------------------------
\* LogisticRegression(random_state=16)
\* ------------------------------------------------------------------------
\* np.unique(y): the distinct labels in sorted order
unique(y) ==
  SelectSeq(Labels, LAMBDA l : \E k \in 1..Len(y) : y[k] = l)

\* coef_ has one row when there are two classes, else one row per class
coef_rows(classes) == IF Len(classes) = 2 THEN 1 ELSE Len(classes)

\* The fitted coefficients are the optimiser's result; the model draws them
\* from a family of integer matrices indexed by seed and modulus: modulus 1
\* makes every coefficient equal, a small modulus makes ties, a prime
\* modulus above the number of columns makes the coefficients of a row
\* distinct.
fitted_coef(seed, modulus, rows, cols) ==
  [r \in 1..rows |->
     [f \in 1..cols |-> (((seed + r) * f) % modulus) - (modulus \div 2)]]
fitted_intercept(seed, rows) == [r \in 1..rows |-> ((seed + r) % 3) - 1]

RECURSIVE dot(_, _, _)
dot(x, w, n) == IF n = 0 THEN 0 ELSE x[n] * w[n] + dot(x, w, n - 1)

\* decision_function of one row of X
decision(lr, x) ==
  [r \in 1..Len(lr.coef_) |-> dot(x, lr.coef_[r], Len(x)) + lr.intercept_[r]]

\* np.argmax: the first index of the largest score
argmax(v) ==
  CHOOSE k \in 1..Len(v) :
    /\ \A m \in 1..Len(v) : v[m] <= v[k]
    /\ \A m \in 1..(k - 1) : v[m] < v[k]

predict_row(lr, x) ==
  IF Len(lr.coef_) = 1
    THEN (IF decision(lr, x)[1] > 0 THEN lr.classes_[2] ELSE lr.classes_[1])
    ELSE lr.classes_[argmax(decision(lr, x))]

\* predict returning the predictions in reverse row order
predict_reversed(lr, X) ==
  [k \in 1..Len(X) |-> predict_row(lr, X[Len(X) + 1 - k])]

\* logreg.predict(X)
predict(lr, X) == [k \in 1..Len(X) |-> predict_row(lr, X[k])]

\* ------------------------------------------------------------------------
\* numpy indexing used by the coefficient summary
\* ------------------------------------------------------------------------
\* row.argsort(): the indices of the row in ascending order of value.  The
\* default sort kind is not stable: equal values come out in ascending
\* index order when up holds and in descending index order otherwise.
\* Indices count from 1.
argsort(row, up) ==
  LET before(a, b) == \/ row[a] < row[b]
                      \/ row[a] = row[b] /\ (IF up THEN a < b ELSE a > b)
      place(a) == 1 + Cardinality({b \in 1..Len(row) : before(b, a)})
  IN  [p \in 1..Len(row) |-> CHOOSE a \in 1..Len(row) : place(a) = p]

\* s[:n]
slice_head(s, n) == SubSeq(s, 1, IF n < Len(s) THEN n ELSE Len(s))

\* s[-(n-1):], the last n - 1 elements in their own order
slice_tail(s, n) ==
  LET m == IF n - 1 < Len(s) THEN n - 1 ELSE Len(s)
  IN  SubSeq(s, Len(s) - m + 1, Len(s))

\* s[:-n:-1]: from the last element backwards, stopping before the n-th
\* element from the end
slice_reversed(s, n) ==
  LET m == IF n - 1 < Len(s) THEN n - 1 ELSE Len(s)
  IN  [k \in 1..m |-> s[Len(s) + 1 - k]]

\* feature_names[index]
take(names, index) == [k \in 1..Len(index) |-> names[index[k]]]

\* ------------------------------------------------------------------------
\* The statements of the notebook in top-to-bottom order
\* ------------------------------------------------------------------------
Statements ==
  << "load", "clean", "filter", "labels", "fit_vectorizer", "transform_test",
     "fit_logreg", "predict", "feature_names", "metrics", "confusion_matrix",
     "pca_2d", "pca_3d", "tsne_2d", "plot_tsne_2d", "tsne_3d", "plot_tsne_3d",
     "coefficients" >>

IndexOf(seq, x) == CHOOSE k \in 1..Len(seq) : seq[k] = x

\* the cell order with the t-SNE 3-D cells run before the t-SNE 2-D cells
NextStatementSkipping(s) ==
  IF s = "coefficients" THEN "done"
  ELSE IF s = "pca_3d" THEN "tsne_3d"
  ELSE IF s = "plot_tsne_3d" THEN "tsne_2d"
  ELSE IF s = "plot_tsne_2d" THEN "coefficients"
  ELSE Statements[IndexOf(Statements, s) + 1]

\* the cell order with both t-SNE reductions run before the two t-SNE plots
NextStatementReduceFirst(s) ==
  IF s = "coefficients" THEN "done"
  ELSE IF s = "tsne_2d" THEN "tsne_3d"
  ELSE IF s = "tsne_3d" THEN "plot_tsne_2d"
  ELSE IF s = "plot_tsne_2d" THEN "plot_tsne_3d"
  ELSE Statements[IndexOf(Statements, s) + 1]

\* the statement that follows s
NextStatement(s) ==
  IF s = "coefficients" THEN "done" ELSE Statements[IndexOf(Statements, s) + 1]

\* the names a statement reads
Reads(s) ==
  CASE s = "load" -> {}
    [] s = "clean" -> {"dataset"}
    [] s = "filter" -> {"filtered_dataset"}
    [] s = "labels" -> {"filtered_dataset"}
    [] s = "fit_vectorizer" -> {"filtered_dataset"}
    [] s = "transform_test" -> {"vectorizer", "filtered_dataset"}
    [] s = "fit_logreg" -> {"x_train", "y_train"}
    [] s = "predict" -> {"logreg", "x_test"}
    [] s = "feature_names" -> {"vectorizer"}
    [] s = "metrics" -> {"y_test", "log_pred"}
    [] s = "confusion_matrix" -> {"y_test", "log_pred", "logreg"}
    [] s = "pca_2d" -> {"x_test", "y_test"}
    [] s = "pca_3d" -> {"x_test", "y_test"}
    [] s = "tsne_2d" -> {"x_test", "y_test"}
    [] s = "plot_tsne_2d" -> {"X_embedded", "y_test_numeric", "label_encoder"}
    [] s = "tsne_3d" -> {"x_test", "y_test"}
    [] s = "plot_tsne_3d" -> {"X_embedded", "y_test_numeric", "label_encoder"}
    [] s = "coefficients" -> {"vectorizer", "logreg"}

\* the names a statement binds
Writes(s) ==
  CASE s = "load" -> {"dataset"}
    [] s = "clean" -> {"filtered_dataset"}
    [] s = "filter" -> {"filtered_dataset"}
    [] s = "labels" -> {"y_train", "y_test"}
    [] s = "fit_vectorizer" -> {"vectorizer", "x_train"}
    [] s = "transform_test" -> {"x_test"}
    [] s = "fit_logreg" -> {"logreg"}
    [] s = "predict" -> {"log_pred"}
    [] s = "feature_names" -> {"feature_names"}
    [] s = "metrics" -> {}
    [] s = "confusion_matrix" -> {"cm"}
    [] s = "pca_2d" -> {"label_encoder", "pca", "X_reduced", "y_test_numeric"}
    [] s = "pca_3d" -> {"label_encoder", "pca", "X_reduced", "y_test_numeric"}
    [] s = "tsne_2d" -> {"label_encoder", "tsne", "X_embedded", "y_test_numeric"}
    [] s = "plot_tsne_2d" -> {}
    [] s = "tsne_3d" -> {"label_encoder", "tsne", "X_embedded", "y_test_numeric"}
    [] s = "plot_tsne_3d" -> {}
    [] s = "coefficients" -> {"feature_names", "summaries"}

\* ------------------------------------------------------------------------
\* State
\* ------------------------------------------------------------------------
VARIABLES
  pc,               \* the statement the run is at; "raised" after an exception
  trace,            \* the statements that have run, in order
  bound,            \* the names that are bound
  wordnet,          \* the WordNet corpus the lemmatizer reads
  dataset,          \* [train, test]: the splits as loaded
  filtered_dataset, \* [train, test]: after map, then after filter
  y_train, y_test,
  vectorizer,       \* [vocabulary_]
  x_train, x_test,  \* one row per entry, one column per vocabulary term
  logreg,           \* [classes_, coef_, intercept_]
  log_pred,
  feature_names,
  metrics,          \* [correct, total] behind accuracy_score
  cm,               \* [labels, counts] of confusion_matrix
  label_encoder,    \* [classes_]
  pca, tsne,        \* [n_components]
  X_reduced,        \* [method, rows, cols]: an embedding, by its shape
  X_embedded,
  y_test_numeric,
  plots,            \* the scatter plots drawn: [name, data, colors]
  summaries,        \* the coefficient summaries printed
  text,             \* argument of a call of clean_text on its own
  cleaned           \* cells of the value that call returned

ctl == <<pc, trace, bound>>
data == <<dataset, filtered_dataset, y_train, y_test>>
fitted == <<vectorizer, x_train, x_test, logreg, log_pred, feature_names>>
scores == <<metrics, cm>>
viz == <<label_encoder, pca, tsne, X_reduced, X_embedded, y_test_numeric, plots>>
call == <<text, cleaned>>
vars == <<ctl, wordnet, data, fitted, scores, viz, summaries, call>>

NoSplits == [train |-> <<>>, test |-> <<>>]
NoEmbedding == [method |-> "none", rows |-> 0, cols |-> 0]

\* nothing of the notebook has run
Fresh ==
  /\ trace = <<>>
  /\ bound = {}
  /\ dataset = NoSplits
  /\ filtered_dataset = NoSplits
  /\ y_train = <<>>
  /\ y_test = <<>>
  /\ vectorizer = [vocabulary_ |-> <<>>]
  /\ x_train = <<>>
  /\ x_test = <<>>
  /\ logreg = [classes_ |-> <<>>, coef_ |-> <<>>, intercept_ |-> <<>>]
  /\ log_pred = <<>>
  /\ feature_names = <<>>
  /\ metrics = [correct |-> 0, total |-> 0]
  /\ cm = [labels |-> <<>>, counts |-> <<>>]
  /\ label_encoder = [classes_ |-> <<>>]
  /\ pca = [n_components |-> 0]
  /\ tsne = [n_components |-> 0]
  /\ X_reduced = NoEmbedding
  /\ X_embedded = NoEmbedding
  /\ y_test_numeric = <<>>
  /\ plots = <<>>
  /\ summaries = <<>>

\* ------------------------------------------------------------------------
\* The datasets the run is given
\* ------------------------------------------------------------------------
\* raw texts of the entries:  "Hats 9"  "www.a spa"  "tap_a"  "a 7"
\*                            "path spa"  "Hats"  "a."
TextHats9 == <<"H","a","t","s"," ","9">>
TextUrlSpa == <<"w","w","w",".","a"," ","s","p","a">>
TextTapA == <<"t","a","p","_","a">>
TextA7 == <<"a"," ","7">>
TextPathSpa == <<"p","a","t","h"," ","s","p","a">>
TextHats == <<"H","a","t","s">>
TextADot == <<"a",".">>

Rep(e, n) == [k \in 1..n |-> e]
\* the entries numbered from 1 in the id column
Numbered(es) == [k \in 1..Len(es) |-> [es[k] EXCEPT !.id = k]]
\* label of the k-th kind of entry when the split has nl distinct labels
LabelOf(k, nl) == Labels[IF k < nl THEN k ELSE nl]

TrainSplit(a, b, c, nulls, nl) ==
  Numbered(
    Rep(Entry(0, TextHats9, LabelOf(1, nl)), a)
    \o (IF nulls THEN <<Entry(0, None, LabelOf(1, nl))>> ELSE <<>>)
    \o Rep(Entry(0, TextUrlSpa, LabelOf(2, nl)), b)
    \o (IF nulls THEN <<Entry(0, TextA7, LabelOf(2, nl)),
                        Entry(0, TextTapA, NoLabel)>> ELSE <<>>)
    \o Rep(Entry(0, TextTapA, LabelOf(3, nl)), c))

TestSplit(x, y, z, nulls, nl) ==
  Numbered(
    (IF nulls THEN <<Entry(0, TextHats, NoLabel)>> ELSE <<>>)
    \o Rep(Entry(0, TextPathSpa, LabelOf(2, nl)), x)
    \o Rep(Entry(0, TextADot, LabelOf(3, nl)), z)
    \o (IF nulls THEN <<Entry(0, None, NoLabel)>> ELSE <<>>)
    \o Rep(Entry(0, TextHats, LabelOf(1, nl)), y))

\* ------------------------------------------------------------------------
\* The run of the notebook
\* ------------------------------------------------------------------------
Init ==
  /\ pc = "load"
  /\ wordnet = WordNetNouns
  /\ Fresh
  /\ text = <<>>
  /\ cleaned = <<>>

\* the names the statement reads are bound (else NameError)
CanRun(s) == Reads(s) \subseteq bound

Proceed(s) ==
  /\ pc' = NextStatement(s)
  /\ trace' = Append(trace, s)
  /\ bound' = bound \cup Writes(s)

Raise ==
  /\ pc' = "raised"
  /\ UNCHANGED <<trace, bound>>

\* dataset = load_dataset("rungalileo/20_Newsgroups_Fixed")
Load ==
  /\ pc = "load"
  /\ \E a, b, c \in 0..MaxRep, x, y, z \in 0..MaxTestRep,
        nulls \in BOOLEAN, nl \in 1..Len(Labels) :
       dataset' = [train |-> TrainSplit(a, b, c, nulls, nl),
                   test |-> TestSplit(x, y, z, nulls, nl)]
  /\ Proceed("load")
  /\ UNCHANGED <<wordnet, filtered_dataset, y_train, y_test, fitted, scores,
                 viz, summaries, call>>

\* filtered_dataset = {split: dataset[split].map(clean_and_update)}
Clean ==
  /\ pc = "clean"
  /\ IF CanRun("clean")
       THEN /\ filtered_dataset' =
                 [train |-> map_clean_and_update(dataset.train, wordnet),
                  test |-> map_clean_and_update(dataset.test, wordnet)]
            /\ Proceed("clean")
       ELSE Raise /\ UNCHANGED filtered_dataset
  /\ UNCHANGED <<wordnet, dataset, y_train, y_test, fitted, scores, viz,
                 summaries, call>>

\* filtered_dataset = {split: filtered_dataset[split].filter(is_valid)}
Filter ==
  /\ pc = "filter"
  /\ IF CanRun("filter")
       THEN /\ filtered_dataset' =
                 [train |-> filter_is_valid(filtered_dataset.train),
                  test |-> filter_is_valid(filtered_dataset.test)]
            /\ Proceed("filter")
       ELSE Raise /\ UNCHANGED filtered_dataset
  /\ UNCHANGED <<wordnet, dataset, y_train, y_test, fitted, scores, viz,
                 summaries, call>>

\* y_train = filtered_dataset['train']['label'];  y_test likewise
LabelsOfSplits ==
  /\ pc = "labels"
  /\ IF CanRun("labels")
       THEN /\ y_train' = column(filtered_dataset.train, "label")
            /\ y_test' = column(filtered_dataset.test, "label")
            /\ Proceed("labels")
       ELSE Raise /\ UNCHANGED <<y_train, y_test>>
  /\ UNCHANGED <<wordnet, dataset, filtered_dataset, fitted, scores, viz,
                 summaries, call>>

\* x_train = vectorizer.fit_transform(filtered_dataset['train']['text'])
FitVectorizer ==
  /\ pc = "fit_vectorizer"
  /\ LET docs == column(filtered_dataset.train, "text")
     IN  IF CanRun("fit_vectorizer") /\ ~fit_raises(docs)
           THEN /\ vectorizer' = [vocabulary_ |-> fit_vocabulary(docs)]
                /\ x_train' = transform(fit_vocabulary(docs), docs)
                /\ Proceed("fit_vectorizer")
           ELSE Raise /\ UNCHANGED <<vectorizer, x_train>>
  /\ UNCHANGED <<wordnet, data, x_test, logreg, log_pred, feature_names,
                 scores, viz, summaries, call>>

\* x_test = vectorizer.transform(filtered_dataset['test']['text'])
\* (check_array raises ValueError on a matrix without rows)
TransformTest ==
  /\ pc = "transform_test"
  /\ LET docs == column(filtered_dataset.test, "text")
     IN  IF CanRun("transform_test") /\ Len(docs) >= 1
           THEN /\ x_test' = transform(vectorizer.vocabulary_, docs)
                /\ Proceed("transform_test")
           ELSE Raise /\ UNCHANGED x_test
  /\ UNCHANGED <<wordnet, data, vectorizer, x_train, logreg, log_pred,
                 feature_names, scores, viz, summaries, call>>

\* logreg.fit(x_train, y_train)
\* (ValueError when y_train holds fewer than two classes)
FitLogreg ==
  /\ pc = "fit_logreg"
  /\ IF CanRun("fit_logreg") /\ Len(unique(y_train)) >= 2
       THEN /\ \E seed \in 0..MaxSeed :
                 LET classes == unique(y_train)
                     cols == Len(x_train[1])
                 IN  logreg' =
                       [classes_ |-> classes,
                        coef_ |-> fitted_coef(seed, 5, coef_rows(classes), cols),
                        intercept_ |-> fitted_intercept(seed, coef_rows(classes))]
            /\ Proceed("fit_logreg")
       ELSE Raise /\ UNCHANGED logreg
  /\ UNCHANGED <<wordnet, data, vectorizer, x_train, x_test, log_pred,
                 feature_names, scores, viz, summaries, call>>

\* log_pred = logreg.predict(x_test)
Predict ==
  /\ pc = "predict"
  /\ IF CanRun("predict")
       THEN /\ log_pred' = predict(logreg, x_test)
            /\ Proceed("predict")
       ELSE Raise /\ UNCHANGED log_pred
  /\ UNCHANGED <<wordnet, data, vectorizer, x_train, x_test, logreg,
                 feature_names, scores, viz, summaries, call>>

\* feature_names = vectorizer.get_feature_names_out()
FeatureNames ==
  /\ pc = "feature_names"
  /\ IF CanRun("feature_names")
       THEN /\ feature_names' = vectorizer.vocabulary_
            /\ Proceed("feature_names")
       ELSE Raise /\ UNCHANGED feature_names
  /\ UNCHANGED <<wordnet, data, vectorizer, x_train, x_test, logreg, log_pred,
                 scores, viz, summaries, call>>

\* print_evaluation_metrics(y_test, log_pred)
Metrics ==
  /\ pc = "metrics"
  /\ IF CanRun("metrics") /\ Len(y_test) = Len(log_pred)
       THEN /\ metrics' =
                 [correct |-> Cardinality({k \in 1..Len(y_test) :
                                             y_test[k] = log_pred[k]}),
                  total |-> Len(y_test)]
            /\ Proceed("metrics")
       ELSE Raise /\ UNCHANGED metrics
  /\ UNCHANGED <<wordnet, data, fitted, cm, viz, summaries, call>>

\* cm = confusion_matrix(y_test, log_pred)
ConfusionMatrix ==
  /\ pc = "confusion_matrix"
  /\ IF CanRun("confusion_matrix") /\ Len(y_test) = Len(log_pred)
       THEN /\ cm' =
                 LET ls == unique(y_test \o log_pred)
                 IN  [labels |-> ls,
                      counts |->
                        [r \in 1..Len(ls) |-> [p \in 1..Len(ls) |->
                           Cardinality({k \in 1..Len(y_test) :
                              y_test[k] = ls[r] /\ log_pred[k] = ls[p]})]]]
            /\ Proceed("confusion_matrix")
       ELSE Raise /\ UNCHANGED cm
  /\ UNCHANGED <<wordnet, data, fitted, metrics, viz, summaries, call>>

\* LabelEncoder().fit_transform(y): positions in the sorted distinct labels,
\* counted from 0
encode(y) == [k \in 1..Len(y) |-> IndexOf(unique(y), y[k]) - 1]

Embedding(method, X, n) == [method |-> method, rows |-> Len(X), cols |-> n]
Scatter(name, X, colors) == [name |-> name, data |-> X, colors |-> Len(colors)]

\* PCA(n_components=n).fit_transform raises ValueError unless
\* n <= min(n_samples, n_features)
pca_raises(X, n) == n > Len(X) \/ n > Len(X[1])

\* the PCA cell for n components: reduce, encode the labels, scatter
PCACell(s, n) ==
  /\ IF CanRun(s) /\ ~pca_raises(x_test, n)
       THEN /\ label_encoder' = [classes_ |-> unique(y_test)]
            /\ pca' = [n_components |-> n]
            /\ X_reduced' = Embedding("pca", x_test, n)
            /\ y_test_numeric' = encode(y_test)
            /\ plots' = Append(plots, Scatter(s, Embedding("pca", x_test, n),
                                              encode(y_test)))
            /\ Proceed(s)
       ELSE Raise /\ UNCHANGED <<label_encoder, pca, X_reduced,
                                 y_test_numeric, plots>>
  /\ UNCHANGED <<wordnet, data, fitted, scores, tsne, X_embedded, summaries,
                 call>>

PCA2D == pc = "pca_2d" /\ PCACell("pca_2d", 2)
PCA3D == pc = "pca_3d" /\ PCACell("pca_3d", 3)

\* the default perplexity of TSNE
perplexity == 30

\* the t-SNE cell for n components.  scikit-learn from 1.2 on raises
\* ValueError when perplexity >= n_samples, earlier releases go on: the
\* notebook pins no release, so either happens.
TSNECell(s, n) ==
  /\ \E checked \in BOOLEAN :
       IF CanRun(s) /\ ~(checked /\ perplexity >= Len(x_test))
         THEN /\ label_encoder' = [classes_ |-> unique(y_test)]
              /\ tsne' = [n_components |-> n]
              /\ X_embedded' = Embedding("tsne", x_test, n)
              /\ y_test_numeric' = encode(y_test)
              /\ Proceed(s)
         ELSE Raise /\ UNCHANGED <<label_encoder, tsne, X_embedded,
                                   y_test_numeric>>
  /\ UNCHANGED <<wordnet, data, fitted, scores, pca, X_reduced, plots,
                 summaries, call>>

TSNE2D == pc = "tsne_2d" /\ TSNECell("tsne_2d", 2)
TSNE3D == pc = "tsne_3d" /\ TSNECell("tsne_3d", 3)

\* the scatter cell after a t-SNE cell; it reads columns 0..n-1 of
\* X_embedded (IndexError when there are fewer)
PlotTSNECell(s, n) ==
  /\ IF CanRun(s) /\ X_embedded.cols >= n
       THEN /\ plots' = Append(plots, Scatter(s, X_embedded, y_test_numeric))
            /\ Proceed(s)
       ELSE Raise /\ UNCHANGED plots
  /\ UNCHANGED <<wordnet, data, fitted, scores, label_encoder, pca, tsne,
                 X_reduced, X_embedded, y_test_numeric, summaries, call>>

PlotTSNE2D == pc = "plot_tsne_2d" /\ PlotTSNECell("plot_tsne_2d", 2)
PlotTSNE3D == pc = "plot_tsne_3d" /\ PlotTSNECell("plot_tsne_3d", 3)

\* what one pass of the coefficient loop prints
summary(class_index, names, row, up) ==
  LET sorted_coef_index == argsort(row, up)
  IN  [class |-> class_index + 1,
       smallest_coefs |-> take(names, slice_head(sorted_coef_index, 10)),
       largest_coefs |-> take(names, slice_reversed(sorted_coef_index, 11))]

\* feature_names = np.array(vectorizer.get_feature_names_out())
\* for class_index in range(logreg.coef_.shape[0]): ...
Coefficients ==
  /\ pc = "coefficients"
  /\ IF CanRun("coefficients")
       THEN /\ feature_names' = vectorizer.vocabulary_
            /\ \E up \in BOOLEAN :
                 summaries' =
                   [r \in 1..Len(logreg.coef_) |->
                      summary(r - 1, vectorizer.vocabulary_, logreg.coef_[r], up)]
            /\ Proceed("coefficients")
       ELSE Raise /\ UNCHANGED <<feature_names, summaries>>
  /\ UNCHANGED <<wordnet, data, vectorizer, x_train, x_test, logreg, log_pred,
                 scores, viz, call>>

Next ==
  \/ Load \/ Clean \/ Filter \/ LabelsOfSplits
  \/ FitVectorizer \/ TransformTest \/ FitLogreg \/ Predict \/ FeatureNames
  \/ Metrics \/ ConfusionMatrix
  \/ PCA2D \/ PCA3D \/ TSNE2D \/ PlotTSNE2D \/ TSNE3D \/ PlotTSNE3D
  \/ Coefficients

Spec == Init /\ [][Next]_vars

\* The kernel runs the statements one after another until the last one or an
\* exception: while the run is on, pc moves.  Every step of Next moves pc to
\* the following statement or to "raised", and Next is enabled whenever the
\* run is on, so this is weak fairness of Next.
Running == pc \notin {"done", "raised"}
Advance == Running /\ pc' \in {NextStatement(pc), "raised"}
FairSpec == Spec /\ WF_pc(Advance)

\* ------------------------------------------------------------------------
\* clean_text called on its own
\* ------------------------------------------------------------------------
Tokens ==
  { <<"h","t","t","p">>, <<"w","w","w">>, <<"a">>, <<"s">>, <<"A">>,
    <<"7">>, <<".">>, <<"_">>, <<"@">>, <<"#">>, <<" ">>, <<CJK>> }

RECURSIVE Flatten(_)
Flatten(ss) == IF ss = <<>> THEN <<>> ELSE ss[1] \o Flatten(Tail(ss))

TokenSeqs == UNION {[1..n -> Tokens] : n \in 0..MaxTokens}
Texts == {Flatten(ts) : ts \in TokenSeqs}

InitClean ==
  /\ pc = "call"
  /\ wordnet \in Corpora
  /\ Fresh
  /\ text \in Texts
  /\ cleaned = <<>>

CallCleanText ==
  /\ pc = "call"
  /\ cleaned' = clean_cells(Cells(text), wordnet)
  /\ pc' = "returned"
  /\ UNCHANGED <<trace, bound, wordnet, data, fitted, scores, viz, summaries,
                 text>>

NextClean == CallCleanText

SpecClean == InitClean /\ [][NextClean]_vars

\* ------------------------------------------------------------------------
\* The coefficient summary run on its own, after a fit
\* ------------------------------------------------------------------------
\* sorted two-letter feature names: aa ab ac ...
FeatureName(f) == <<LowerSeq[((f - 1) \div 26) + 1], LowerSeq[((f - 1) % 26) + 1]>>
Moduli == {1, 5, 23}

InitCoef ==
  /\ pc = "coefficients"
  /\ trace = SubSeq(Statements, 1, Len(Statements) - 1)
  /\ bound = UNION {Writes(Statements[k]) : k \in 1..(Len(Statements) - 1)}
  /\ wordnet = WordNetNouns
  /\ dataset = NoSplits
  /\ filtered_dataset = NoSplits
  /\ y_train = <<>>
  /\ y_test = <<>>
  /\ \E n \in 1..MaxFeatures, seed \in 0..MaxMul, m \in Moduli, nl \in 2..Len(Labels) :
       /\ vectorizer = [vocabulary_ |-> [f \in 1..n |-> FeatureName(f)]]
       /\ feature_names = [f \in 1..n |-> FeatureName(f)]
       /\ logreg = [classes_ |-> SubSeq(Labels, 1, nl),
                    coef_ |-> fitted_coef(seed, m, coef_rows(SubSeq(Labels, 1, nl)), n),
                    intercept_ |-> fitted_intercept(seed, coef_rows(SubSeq(Labels, 1, nl)))]
  /\ x_train = <<>>
  /\ x_test = <<>>
  /\ log_pred = <<>>
  /\ metrics = [correct |-> 0, total |-> 0]
  /\ cm = [labels |-> <<>>, counts |-> <<>>]
  /\ label_encoder = [classes_ |-> <<>>]
  /\ pca = [n_components |-> 3]
  /\ tsne = [n_components |-> 3]
  /\ X_reduced = NoEmbedding
  /\ X_embedded = NoEmbedding
  /\ y_test_numeric = <<>>
  /\ plots = <<>>
  /\ summaries = <<>>
  /\ text = <<>>
  /\ cleaned = <<>>

NextCoef == Coefficients

SpecCoef == InitCoef /\ [][NextCoef]_vars

\* ------------------------------------------------------------------------
\* Properties of clean_text (checked under SpecClean)
\* ------------------------------------------------------------------------
returned == pc = "returned"
arg == Cells(text)
UrlPrefixes == { <<"h","t","t","p">>, <<"w","w","w">> }
\* indices of the run of non-whitespace characters that starts at index k
RunFrom(k) == k..(k + NonSpaceRun(arg, k) - 1)
Survives(k) == \E j \in 1..Len(cleaned) : cleaned[j].i = k
AtRunStart(k) == k = 1 \/ IsSpace(text[k - 1])

\* C3 as stated: no character of a whitespace-delimited run that begins with
\* http, https or www survives into the value clean_text returns.
C3_Original ==
  returned =>
    \A k \in 1..Len(text) :
      (AtRunStart(k) /\ \E lit \in UrlPrefixes : HasAt(arg, k, lit))
        => \A j \in RunFrom(k) : ~Survives(j)

\* http or www followed by at least one more non-whitespace character
UrlAt(k) ==
  \E lit \in UrlPrefixes :
    HasAt(arg, k, lit) /\ NonSpaceRun(arg, k + Len(lit)) >= 1

\* C3 amended: wherever http or www is followed by at least one more
\* non-whitespace character, no character from there to the end of that run
\* of non-whitespace characters survives into the value clean_text returns.
C3_UrlsRemoved ==
  returned =>
    \A k \in 1..Len(text) : UrlAt(k) => \A j \in RunFrom(k) : ~Survives(j)

\* a text with a www URL is cleaned and something beside the URL survives
C3_Witness ==
  /\ returned
  /\ \E k \in 1..Len(text) : UrlAt(k) /\ HasAt(arg, k, <<"w","w","w">>)
  /\ cleaned # <<>>

\* words joined by single spaces, no leading or trailing whitespace, every
\* character of every word a lowercase letter
LowercaseWords(t) ==
  /\ \A k \in 1..Len(t) : t[k].c \in Lowers \cup {" "}
  /\ \A k \in 1..Len(t) :
       t[k].c = " " => /\ k > 1 /\ k < Len(t)
                       /\ t[k + 1].c # " "

\* C4 as stated: for every input text the value clean_text returns is a
\* sequence of words joined by single spaces whose characters are all
\* lowercase letters.
C4_Original == returned => LowercaseWords(cleaned)

\* C4 amended: for every input text of ASCII characters the value clean_text
\* returns is a sequence of words joined by single spaces, without leading
\* or trailing whitespace, whose characters are all lowercase letters.
C4_LowercaseWords ==
  (returned /\ \A k \in 1..Len(text) : IsAscii(text[k]))
    => LowercaseWords(cleaned)

\* an ASCII text with an uppercase letter and an underscore is cleaned to
\* two words or more
C4_Witness ==
  /\ returned
  /\ \A k \in 1..Len(text) : IsAscii(text[k])
  /\ \E k \in 1..Len(text) : text[k] \in Uppers
  /\ \E k \in 1..Len(text) : text[k] = "_"
  /\ \E k \in 1..Len(cleaned) : cleaned[k].c = " "

\* C5: no character occurs three or more times consecutively in the value
\* clean_text returns.
C5_NoTripleRun ==
  returned =>
    \A k \in 1..(Len(cleaned) - 2) :
      ~(cleaned[k].c = cleaned[k + 1].c /\ cleaned[k + 1].c = cleaned[k + 2].c)

\* C6: no space-separated token of the value clean_text returns is a member
\* of stop_words, and a stop word that is a word of the input text is not
\* a token of the value returned.
C6_NoStopWords ==
  returned =>
    LET out == {Str(split(cleaned)[k]) : k \in 1..Len(split(cleaned))}
        inp == {Str(split(arg)[k]) : k \in 1..Len(split(arg))}
    IN  /\ out \cap stop_words = {}
        /\ \A w \in inp \cap stop_words : w \notin out


\* ------------------------------------------------------------------------
\* Properties of the run (checked under Spec and FairSpec)
\* ------------------------------------------------------------------------
Ran(s) == \E k \in 1..Len(trace) : trace[k] = s
Splits == {"train", "test"}
BothPresent(e) == e.label # NoLabel /\ e.text # None

\* C1: after map(clean_and_update) and filter(is_valid) each split holds
\* exactly the loaded entries whose label and text are both present, in
\* their original order, with their labels; an entry whose text cleans to
\* the empty string stays.
C1_FilterKeepsPresent ==
  Ran("filter") =>
    \A sp \in Splits :
      LET kept == SelectSeq(dataset[sp], BothPresent)
          got == filtered_dataset[sp]
      IN  /\ column(got, "id") = column(kept, "id")
          /\ column(got, "label") = column(kept, "label")

\* the train split had an entry without text and one without label, and an
\* entry that cleaned to the empty string came through the filter
C1_Witness ==
  /\ Ran("filter")
  /\ \E k \in 1..Len(dataset.train) : dataset.train[k].text = None
  /\ \E k \in 1..Len(dataset.train) : dataset.train[k].label = NoLabel
  /\ \E k \in 1..Len(filtered_dataset.train) : filtered_dataset.train[k].text = <<>>
  /\ Len(filtered_dataset.train) >= 3

\* the statements the claim names, in the order it names them
Stages ==
  << "load", "clean", "filter", "fit_vectorizer", "transform_test",
     "fit_logreg", "predict", "metrics", "confusion_matrix",
     "pca_2d", "pca_3d", "tsne_2d", "tsne_3d", "coefficients" >>
IsStage(s) == \E k \in 1..Len(Stages) : Stages[k] = s
StagesRun == SelectSeq(trace, IsStage)
BoundBefore(k) == UNION {Writes(trace[j]) : j \in 1..(k - 1)}

\* the stages that have run are the first ones of the fixed order, each
\* once; every statement read only names bound by earlier statements; the
\* run is over only after all the stages
InOrder ==
  /\ StagesRun = SubSeq(Stages, 1, Len(StagesRun))
  /\ \A k \in 1..Len(trace) : Reads(trace[k]) \subseteq BoundBefore(k)
  /\ pc = "done" => StagesRun = Stages

C7_SharedVocabulary ==
  LET vocabulary == vectorizer.vocabulary_
      train_terms == all_terms(column(filtered_dataset.train, "text"))
  IN  /\ Ran("fit_vectorizer") =>
           /\ \A k \in 1..Len(x_train) : Len(x_train[k]) = Len(vocabulary)
           /\ \A f \in 1..Len(vocabulary) : vocabulary[f] \in train_terms
      /\ Ran("transform_test") =>
           /\ \A k \in 1..Len(x_test) : Len(x_test[k]) = Len(vocabulary)
           /\ vocabulary = fit_vocabulary(column(filtered_dataset.train, "text"))
      /\ Ran("feature_names") => Len(feature_names) = Len(vocabulary)

\* the test texts had a term that no train text has, and were transformed
C7_Witness ==
  /\ Ran("feature_names")
  /\ Len(x_test) >= 2
  /\ all_terms(column(filtered_dataset.test, "text"))
       \ all_terms(column(filtered_dataset.train, "text")) # {}

\* row of the matrix for one entry
RowOf(e) ==
  [f \in 1..Len(vectorizer.vocabulary_) |->
     token_count(e.text, vectorizer.vocabulary_[f])]

\* C10: x_train has one row per label of y_train and x_test one row per
\* label of y_test and per prediction of log_pred; the i-th row, the i-th
\* label and the i-th prediction come from the i-th filtered entry.
C10_RowsAligned ==
  /\ Ran("fit_vectorizer") =>
       /\ Len(x_train) = Len(y_train)
       /\ Len(x_train) = Len(filtered_dataset.train)
       /\ \A k \in 1..Len(x_train) :
            /\ y_train[k] = filtered_dataset.train[k].label
            /\ x_train[k] = RowOf(filtered_dataset.train[k])
  /\ Ran("predict") =>
       /\ Len(x_test) = Len(y_test)
       /\ Len(y_test) = Len(log_pred)
       /\ Len(x_test) = Len(filtered_dataset.test)
       /\ \A k \in 1..Len(x_test) :
            /\ y_test[k] = filtered_dataset.test[k].label
            /\ x_test[k] = RowOf(filtered_dataset.test[k])
            /\ log_pred[k] = predict_row(logreg, RowOf(filtered_dataset.test[k]))

\* predictions were made for a test split that lost entries to the filter,
\* and they are not all the same
C10_Witness ==
  /\ Ran("predict")
  /\ Len(filtered_dataset.test) < Len(dataset.test)
  /\ \E j, k \in 1..Len(log_pred) : log_pred[j] # log_pred[k]

\* C9: clean_and_update returns an entry without text as it is, and in an
\* entry with text replaces the text by clean_text(text), leaving the id and
\* the label alone; the map never raises.
C9_CleanAndUpdateFrame ==
  /\ (pc = "raised") => trace # <<"load">>
  /\ pc = "filter" =>
       \A sp \in Splits :
         /\ Len(filtered_dataset[sp]) = Len(dataset[sp])
         /\ \A k \in 1..Len(dataset[sp]) :
              LET old == dataset[sp][k]
                  new == filtered_dataset[sp][k]
              IN  IF old.text = None
                    THEN new = old
                    ELSE /\ new.text = clean_text(old.text, wordnet)
                         /\ new.id = old.id
                         /\ new.label = old.label
                         /\ DOMAIN new = DOMAIN old

\* the map ran over a split with an entry without text and an entry whose
\* text it changed
C9_Witness ==
  /\ pc = "filter"
  /\ \E k \in 1..Len(dataset.train) : dataset.train[k].text = None
  /\ \E k \in 1..Len(dataset.train) :
       /\ dataset.train[k].text # None
       /\ filtered_dataset.train[k].text # dataset.train[k].text

\* ------------------------------------------------------------------------
\* Properties of the coefficient summary (checked under SpecCoef)
\* ------------------------------------------------------------------------
Names(seq) == {seq[k] : k \in 1..Len(seq)}
CoefOf(r, name) == logreg.coef_[r][IndexOf(vectorizer.vocabulary_, name)]

\* the summary of row r lists n names at each end, in coefficient order
Listed(r, n) ==
  LET sm == summaries[r].smallest_coefs
      lg == summaries[r].largest_coefs
      rest(listed) == Names(vectorizer.vocabulary_) \ Names(listed)
  IN  /\ Len(sm) = n /\ Cardinality(Names(sm)) = n
      /\ Len(lg) = n /\ Cardinality(Names(lg)) = n
      /\ \A k \in 1..(Len(sm) - 1) : CoefOf(r, sm[k]) <= CoefOf(r, sm[k + 1])
      /\ \A k \in 1..(Len(lg) - 1) : CoefOf(r, lg[k]) >= CoefOf(r, lg[k + 1])
      /\ \A a \in Names(sm), b \in rest(sm) : CoefOf(r, a) <= CoefOf(r, b)
      /\ \A a \in Names(lg), b \in rest(lg) : CoefOf(r, a) >= CoefOf(r, b)
      /\ Len(vectorizer.vocabulary_) >= 20 => Names(sm) \cap Names(lg) = {}

\* C8 as stated: every row of coef_ gets a summary with the 10 features of
\* lowest coefficient in ascending order and the 10 of highest coefficient
\* in descending order, disjoint when there are 20 features or more.
C8_Original ==
  Ran("coefficients") =>
    /\ Len(summaries) = Len(logreg.coef_)
    /\ \A r \in 1..Len(summaries) : Listed(r, 10)

\* C8 amended: every row of coef_ gets a summary with the min(10, n)
\* features of lowest coefficient in ascending order and the min(10, n) of
\* highest coefficient in descending order, n being the number of features;
\* the two lists are disjoint when n is 20 or more.
C8_TopCoefficients ==
  Ran("coefficients") =>
    /\ Len(summaries) = Len(logreg.coef_)
    /\ \A r \in 1..Len(summaries) :
         Listed(r, IF Len(vectorizer.vocabulary_) < 10
                     THEN Len(vectorizer.vocabulary_) ELSE 10)

\* summaries were printed for a vocabulary of 20 features or more whose
\* coefficients are not all equal
C8_Witness ==
  /\ Ran("coefficients")
  /\ Len(vectorizer.vocabulary_) >= 20
  /\ \E f, g \in 1..Len(vectorizer.vocabulary_) : logreg.coef_[1][f] # logreg.coef_[1][g]
  /\ Len(summaries) >= 1

\* ------------------------------------------------------------------------
\* Properties of the coefficient loop within the whole run (checked under
\* Spec)
\* ------------------------------------------------------------------------
\* the feature vector of a document holding feature f once and nothing else
Unit(n, f) == [g \in 1..n |-> IF g = f THEN 1 ELSE 0]
Probes ==
  {Unit(Len(vectorizer.vocabulary_), f) : f \in 1..Len(vectorizer.vocabulary_)}
    \cup {x_test[k] : k \in 1..Len(x_test)}

\* row r of coef_ decides x: its score is positive when it is the only row,
\* and strictly the largest otherwise
Wins(r, x) ==
  LET d == decision(logreg, x)
  IN  IF Len(d) = 1 THEN d[1] > 0
      ELSE \A m \in 1..Len(d) : m # r => d[m] < d[r]

\* row r of coef_ describes class c: whatever row r decides is predicted c
Describes(r, c) == \A x \in Probes : Wins(r, x) => predict_row(logreg, x) = c

\* C11: once the coefficient loop has run there is exactly one summary per
\* distinct label of the training set, and the k-th summary is headed
\* 'Class k' and describes the k-th class of logreg.classes_.
C11_SummaryPerClass ==
  Ran("coefficients") =>
    /\ Len(summaries) = Len(unique(y_train))
    /\ \A k \in 1..Len(summaries) :
         /\ summaries[k].class = k
         /\ k <= Len(logreg.classes_)
         /\ Describes(k, logreg.classes_[k])

\* with three labels or more in the training set there is one summary per
\* label, headed and ordered as logreg.classes_
CoefRowsMulticlass ==
  Ran("coefficients") /\ Len(unique(y_train)) >= 3 =>
    /\ Len(summaries) = Len(unique(y_train))
    /\ \A k \in 1..Len(summaries) :
         summaries[k].class = k /\ Describes(k, logreg.classes_[k])

\* ------------------------------------------------------------------------
\* Properties of the variables rebound across the plotting cells (checked
\* under Spec)
\* ------------------------------------------------------------------------
\* the reduction and the number of components each scatter is drawn from
MethodOf(name) == IF name \in {"pca_2d", "pca_3d"} THEN "pca" ELSE "tsne"
ColsOf(name) == IF name \in {"pca_2d", "plot_tsne_2d"} THEN 2 ELSE 3

\* what a scatter read: an embedding of the test matrix made by its own
\* reduction with its own number of components, and one colour per row
ReadOwn(p) ==
  /\ p.data = Embedding(MethodOf(p.name), x_test, ColsOf(p.name))
  /\ p.data.rows = p.colors

\* the names a t-SNE plot cell is about to read hold what the reduction
\* with n components left
ReadyFor(s, n) ==
  pc = s =>
    /\ X_embedded = Embedding("tsne", x_test, n)
    /\ tsne.n_components = n
    /\ y_test_numeric = encode(y_test)
    /\ Len(y_test_numeric) = X_embedded.rows
    /\ label_encoder.classes_ = unique(y_test)

\* C12: in a top-to-bottom run every scatter reads the rebound variables
\* as its own reduction left them: each 2-D scatter reads a 2-component
\* embedding, each 3-D scatter a 3-component one, a PCA plot reads a PCA
\* embedding and a t-SNE plot a t-SNE embedding, and the embedding has as
\* many rows as y_test_numeric has entries.
C12_PlotsReadOwnEmbedding ==
  /\ \A k \in 1..Len(plots) : ReadOwn(plots[k])
  /\ ReadyFor("plot_tsne_2d", 2)
  /\ ReadyFor("plot_tsne_3d", 3)
  /\ pc \in {"pca_3d", "tsne_2d"} /\ "X_reduced" \in bound =>
       /\ X_reduced.method = "pca"
       /\ X_reduced.rows = Len(y_test_numeric)

\* the run ended with the four scatters drawn, two of them from t-SNE
\* embeddings that replaced one another in X_embedded
C12_Witness ==
  /\ pc = "done"
  /\ Len(plots) = 4
  /\ plots[3].data.cols = 2 /\ plots[4].data.cols = 3
  /\ plots[4].data.rows >= 3

====
